---- MODULE Spec2Model ----
(***************************************************************************)
(* Model of the shaka provider of vidstack-player: the library loader      *)
(* (ShakaLibLoader, importShaka, loadShakaScript), the provider            *)
(* (ShakaProvider) and the controller (ShakaController).                   *)
(*                                                                         *)
(* Every handler of the source is one action.  The asynchronous loader is  *)
(* cut at the awaits whose promise settles in a later task (loadScript,    *)
(* the user's loader function) and at the first await of #startLoading,    *)
(* after which the caller of setup() goes on running.                      *)
(***************************************************************************)
EXTENDS Integers, Sequences, FiniteSets

VARIABLES
  library,          \* ShakaProvider.#library
  shakaGlobal,      \* whether window.shaka (polyfill, util, Player) is defined
  browserSupported, \* what window.shaka.Player.isBrowserSupported() answers
  pc,               \* where ShakaLibLoader.#startLoading stands
  outcome,          \* what the awaited script or loader function gave
  loadResult,       \* how the promise of #startLoading settled
  loaderLog,        \* what the loader dispatched, notified and called, in order
  ctor,             \* ShakaProvider.#ctor
  instance,         \* ShakaController.#instance
  listeners,        \* the listeners of #eventManager, in registration order
  callbacks,        \* ShakaController.#callbacks
  hooked,           \* enableAuto hook and 'change' listener installed (setup ran to its end)
  everRegistered,   \* history: callbacks passed to onInstance while no instance existed
  variantTracks,    \* instance.getVariantTracks()
  abrEnabled,       \* the instance's abr.enabled configuration
  instanceSrc,      \* the last url given to instance.load
  source,           \* ctx.$state.source
  qualities,        \* the items of ctx.qualities
  selected,         \* ctx.qualities.selected
  qAuto,            \* ctx.qualities.auto
  lastOp,           \* the operation the last step ran
  calls,            \* the calls that operation made, in order
  destroyed         \* history: destroy() was called after setup()

vars == <<library, shakaGlobal, browserSupported, pc, outcome, loadResult, loaderLog, ctor,
          instance, listeners, callbacks, hooked, everRegistered, variantTracks,
          abrEnabled, instanceSrc, source, qualities, selected, qAuto,
          lastOp, calls, destroyed>>

envVars == <<library, shakaGlobal, browserSupported>>
hostVars == <<source, qualities, selected, qAuto>>
instVars == <<instance, listeners, hooked, variantTracks, abrEnabled, instanceSrc>>

-----------------------------------------------------------------------------
(* Bounds *)

MaxTracks == 2
MaxQualities == 2

-----------------------------------------------------------------------------
(* Values *)

Null == "null"
Undefined == "undefined"

\* types.ts: the values `library` may hold.  "functionLoader" is a loader written
\* with the `function` keyword (it has a prototype), "arrowLoader" one written as
\* an arrow or async function (it has none).
ShakaLibrary == {"url", "Player", "namespace", "arrowLoader", "functionLoader", Undefined}

\* The string values of the model: the library url and a media url.
isString(v) == v \in {"url", "a.mpd"}
isUndefined(v) == v = Undefined

\* value.prototype: classes and `function` functions have one.
HasPrototype(v) == v \in {"Player", "functionLoader"}

\* 'Player' in value
HasPlayerKey(v) == v = "namespace"

isShakaConstructor(v) == v # Undefined /\ HasPrototype(v)

isShakaNamespace(v) == v # Undefined /\ HasPlayerKey(v)

\* What `await loader()` can give: a rejection, undefined, a module without a
\* default export, a module whose default is the constructor or the namespace.
LoaderResults == {"reject", "undefined", "emptyModule", "ctorModule", "namespaceModule"}

\* (await loader())?.default
DefaultOf(result) ==
  CASE result = "ctorModule" -> "Player"
    [] result = "namespaceModule" -> "namespace"
    [] OTHER -> Undefined

\* What happens to the remote script: loadScript rejects, it loads but leaves no
\* window.shaka, it leaves a window.shaka without a Player function, or it
\* defines window.shaka.Player.
ScriptResults == {"scriptError", "noShaka", "noPlayer", "ok"}

\* ctx.$state.source: none yet, a source whose src is a url, a source whose src
\* is an object (a MediaStream).
Sources == {"a.mpd", "mediaStream"}

\* The callbacks a caller may pass to onInstance.
CallbackIds == {"cb1", "cb2"}

Entry(op, type, arg) == [op |-> op, type |-> type, arg |-> arg]

Op(name, type, flag, track) == [name |-> name, type |-> type, flag |-> flag, track |-> track]

-----------------------------------------------------------------------------
(* events.ts *)

ShakaLibEventName ==
  <<"abrstatuschanged", "error", "trackschanged", "loaded", "manifestupdated",
    "variantchanged", "adaptation">>

\* maverick.js camelToKebabCase: a hyphen between a lower-case and an upper-case
\* letter, then lower case.  The library's event types hold no upper-case
\* letter, so each is its own kebab form.
camelToKebabCase(type) == type

toDOMEventType(type) == "shaka-" \o camelToKebabCase(type)

-----------------------------------------------------------------------------
(* ShakaController.setup and ShakaProvider.setup's callback, as functions of  *)
(* the machine state w they run on.                                           *)

Machine ==
  [log |-> loaderLog, ctor |-> ctor, instance |-> instance, listeners |-> listeners,
   hooked |-> hooked, calls |-> <<>>, instanceSrc |-> instanceSrc,
   abr |-> abrEnabled, tracks |-> variantTracks, global |-> shakaGlobal,
   qualities |-> qualities, selected |-> selected, auto |-> qAuto,
   threw |-> FALSE]

\* new ctor(): a player when ctor is the library's constructor; some other
\* object when it is a function that is no player constructor.
NewInstance(c) == IF c = "Player" THEN "player" ELSE "bogus"

Listener(event, handler) == [event |-> event, handler |-> handler]

\* shaka.ts 45-48
DispatcherListeners ==
  [i \in 1..Len(ShakaLibEventName) |-> Listener(ShakaLibEventName[i], "dispatchShakaEvent")]
    \o <<Listener("error", "onError")>>

\* shaka.ts 61-81
StateListeners ==
  <<Listener("manifestupdated", "onManifestUpdated"),
    Listener("loaded", "onLoaded"),
    Listener("trackschanged", "onTracksChanged"),
    Listener("variantchanged", "onVariantChanged"),
    Listener("adaptation", "onVariantChanged")>>

SetupListenersStateFirst == StateListeners \o DispatcherListeners
SetupListeners == DispatcherListeners \o StateListeners

\* shaka.ts 49: for (const callback of this.#callbacks) callback(this.#instance)
CallbackCalls(cbs, inst) == [i \in 1..Len(cbs) |-> Entry("callback", inst, cbs[i])]

\* shaka.ts 49-59, in the order of the code.
SetupCallsAttachFirst(cbs, inst) ==
  <<Entry("attach", inst, "video")>> \o CallbackCalls(cbs, inst)
    \o <<Entry("dispatch", "shaka-instance", inst), Entry("configure", inst, "config")>>
SetupCalls(cbs, inst) ==
  CallbackCalls(cbs, inst)
    \o <<Entry("attach", inst, "video"),
         Entry("dispatch", "shaka-instance", inst),
         Entry("configure", inst, "config")>>

\* ShakaController.setup (shaka.ts 39-86).  Line 40 throws a ReferenceError when
\* there is no global `shaka`; line 46 throws a TypeError when the new object is
\* no event target.
ControllerSetup(w, c) ==
  IF ~w.global THEN [w EXCEPT !.threw = TRUE]
  ELSE LET inst == NewInstance(c) IN
    IF inst # "player" THEN [w EXCEPT !.instance = inst, !.threw = TRUE]
    ELSE [w EXCEPT !.instance = inst,
                   !.abr = TRUE,
                   !.tracks = <<>>,
                   !.instanceSrc = Null,
                   !.listeners = SetupListeners,
                   !.calls = @ \o SetupCalls(callbacks, inst),
                   !.hooked = TRUE]

\* ShakaController.loadSource (shaka.ts 194-197); load on an object that is no
\* player throws.
ControllerLoadSource(w, src) ==
  IF ~isString(src) THEN w
  ELSE CASE w.instance = "player" ->
              [w EXCEPT !.calls = @ \o <<Entry("load", w.instance, src)>>,
                        !.instanceSrc = src]
         [] w.instance = "bogus" -> [w EXCEPT !.threw = TRUE]
         [] OTHER -> w

\* ShakaProvider.loadSource (part_001 92-102)
ProviderLoadSource(w, src) ==
  IF ~isString(src)
  THEN [w EXCEPT !.calls = @ \o <<Entry("removeSource", "video", src)>>]
  ELSE LET a == [w EXCEPT !.calls = @ \o <<Entry("appendSource", "video", src)>>]
           b == ControllerLoadSource(a, src)
       IN IF b.threw THEN b
          ELSE [b EXCEPT !.calls = @ \o <<Entry("currentSrc", "video", src)>>]

\* The callback ShakaProvider.setup gives the loader (part_001 83-89).
ReadyCallbackLoadFirst(w, c) ==
  LET a == ControllerSetup([w EXCEPT !.ctor = c], c) IN
  IF a.threw THEN a
  ELSE LET b == IF source # Null THEN ProviderLoadSource(a, source) ELSE a
       IN [b EXCEPT !.calls = @ \o <<Entry("notify", "provider-setup", "provider")>>]
ReadyCallback(w, c) ==
  LET a == ControllerSetup([w EXCEPT !.ctor = c], c) IN
  IF a.threw THEN a
  ELSE LET b == [a EXCEPT !.calls = @ \o <<Entry("notify", "provider-setup", "provider")>>]
       IN IF source # Null THEN ProviderLoadSource(b, source) ELSE b

-----------------------------------------------------------------------------
(* ShakaLibLoader (part_000) *)

\* part_000 55, 110: the media error code the loader notifies.
ErrorCode == 4

LogEntry(op, type, arg, code) == [op |-> op, type |-> type, arg |-> arg, code |-> code]

\* #onLoadStart (part_000 62-71)
onLoadStart(w) ==
  [w EXCEPT !.log = @ \o <<LogEntry("dispatch", "shaka-lib-load-start", "void", 0)>>]

\* #onLoaded (part_000 73-89): dispatch, then the ready callback.
onLoaded(w, c) ==
  ReadyCallback(
    [w EXCEPT !.log = @ \o <<LogEntry("dispatch", "shaka-lib-loaded", c, 0),
                             LogEntry("callback", "ready", c, 0)>>], c)

\* #onLoadError (part_000 91-113)
onLoadErrorNoNotify(w, err) ==
  [w EXCEPT !.threw = FALSE,
            !.log = @ \o <<LogEntry("dispatch", "shaka-lib-load-error", err, 0)>>]
onLoadError(w, err) ==
  [w EXCEPT !.threw = FALSE,
            !.log = @ \o <<LogEntry("dispatch", "shaka-lib-load-error", err, 0),
                           LogEntry("notify", "error", err, ErrorCode)>>]

\* The end of #startLoading once a constructor was obtained (part_000 47-59).
\* window.shaka.Player.isBrowserSupported() throws when window.shaka is undefined.
SupportCheck(w) ==
  IF ~w.global THEN [w |-> w, result |-> "rejected"]
  ELSE IF ~browserSupported
       THEN [w |-> [w EXCEPT !.log = @ \o
                       <<LogEntry("dispatch", "shaka-unsupported", "void", 0),
                         LogEntry("notify", "error", "unsupported", ErrorCode)>>],
             result |-> "null"]
       ELSE [w |-> w, result |-> "ctor"]

\* What a try block that ran onLoaded(c) leaves (part_000 140-161, 177-193): the
\* constructor when nothing threw, else onLoadError and undefined.
TryLoaded(w, c) ==
  LET a == onLoaded(w, c) IN
  IF a.threw THEN [w |-> onLoadError(a, "setupError"), result |-> "null"]
  ELSE SupportCheck(a)

\* onLoaded(c) outside a try block (part_000 129-138): what it throws rejects
\* the promise of importShaka and with it that of #startLoading.
DirectLoaded(w, c) ==
  LET a == onLoaded(w, c) IN
  IF a.threw THEN [w |-> [a EXCEPT !.threw = FALSE], result |-> "rejected"]
  ELSE SupportCheck(a)

\* part_000 45: importShaka is tried when loadShakaScript gave undefined and the
\* library is no string.
TriesImport(lib, c) == isUndefined(c) /\ ~isString(lib)

\* importShaka given a string (part_000 127-134): the load start is dispatched
\* and `'Player' in loader` throws a TypeError, which rejects #startLoading.
ImportString(w) == [w |-> onLoadStart(w), result |-> "rejected"]

\* loadShakaScript returned undefined after onLoadError (part_000 191-195, 45-48).
ScriptFailed(w, err) ==
  LET a == onLoadError(w, err) IN
  IF TriesImport(library, Undefined) THEN ImportString(a)
  ELSE [w |-> a, result |-> "null"]

\* The state a step of the loader leaves.
Commit(r, op) ==
  /\ loaderLog' = r.w.log
  /\ ctor' = r.w.ctor
  /\ instance' = r.w.instance
  /\ listeners' = r.w.listeners
  /\ hooked' = r.w.hooked
  /\ instanceSrc' = r.w.instanceSrc
  /\ abrEnabled' = r.w.abr
  /\ variantTracks' = r.w.tracks
  /\ shakaGlobal' = r.w.global
  /\ calls' = r.w.calls
  /\ qualities' = r.w.qualities
  /\ selected' = r.w.selected
  /\ qAuto' = r.w.auto
  /\ loadResult' = r.result
  /\ lastOp' = op
  /\ destroyed' = (destroyed \/ (op.name = "destroy" /\ pc # "idle"))
  /\ UNCHANGED <<library, browserSupported, callbacks, everRegistered, source>>

NoTrack == [id |-> 0, width |-> 0, height |-> 0, bandwidth |-> 0, videoCodec |-> ""]

\* ShakaProvider.setup (part_001 81-90): new ShakaLibLoader, whose constructor
\* runs #startLoading up to its first await: loadShakaScript dispatches the
\* load start for a url (part_000 173-178) and returns undefined otherwise.
ProviderSetup ==
  /\ pc = "idle"
  /\ outcome' = outcome
  /\ IF isString(library)
     THEN /\ pc' = "script"
          /\ Commit([w |-> onLoadStart(Machine), result |-> "pending"],
                    Op("setup", library, FALSE, NoTrack))
     ELSE /\ pc' = "import"
          /\ Commit([w |-> Machine, result |-> "pending"],
                    Op("setup", library, FALSE, NoTrack))

\* loadShakaScript after `await loadScript(src)` (part_000 177-195), then the
\* rest of #startLoading (part_000 45-59).
ScriptSettles(r) ==
  /\ pc = "script"
  /\ r \in {"noShaka", "noPlayer"} => ~shakaGlobal
  /\ pc' = "done"
  /\ outcome' = r
  /\ IF r = "ok"
     THEN Commit(TryLoaded([Machine EXCEPT !.global = TRUE], "Player"),
                 Op("scriptSettles", r, FALSE, NoTrack))
     ELSE Commit(ScriptFailed(Machine, r), Op("scriptSettles", r, FALSE, NoTrack))

\* importShaka up to its await (part_000 116-141), run when the first await of
\* #startLoading resumes with a library that is no string (part_000 45).
ImportShaka ==
  /\ pc = "import"
  /\ outcome' = outcome
  /\ LET op == Op("importShaka", library, FALSE, NoTrack) IN
     IF isUndefined(library)
     THEN pc' = "done" /\ Commit([w |-> Machine, result |-> "null"], op)
     ELSE IF isShakaConstructor(library)
     THEN pc' = "done" /\ Commit(DirectLoaded(onLoadStart(Machine), library), op)
     ELSE IF isShakaNamespace(library)
     THEN pc' = "done" /\ Commit(DirectLoaded(onLoadStart(Machine), "Player"), op)
     ELSE pc' = "loader" /\ Commit([w |-> onLoadStart(Machine), result |-> "pending"], op)

\* importShaka after `await loader()` (part_000 140-163), then the rest of
\* #startLoading.
LoaderSettles(r) ==
  /\ pc = "loader"
  /\ pc' = "done"
  /\ outcome' = r
  /\ LET op == Op("loaderSettles", r, FALSE, NoTrack)
         c == DefaultOf(r)
     IN IF r = "reject"
        THEN Commit([w |-> onLoadError(Machine, "reject"), result |-> "null"], op)
        ELSE IF isShakaNamespace(c)
        THEN Commit(TryLoaded(Machine, "Player"), op)
        ELSE IF c # Undefined
        THEN Commit(TryLoaded(Machine, c), op)
        ELSE Commit([w |-> onLoadError(Machine, "invalidImport"), result |-> "null"], op)

-----------------------------------------------------------------------------
(* The library's tracks and the host's qualities *)

\* shaka.ts 136: a track's height is null when the variant has no video.
NoHeight == -1

TrackIds == {1, 2, 10}

\* shaka.extern.Track, the fields the controller reads.
Track(id) ==
  [id |-> id,
   width |-> IF id = 10 THEN 0 ELSE 640 * id,
   height |-> IF id = 10 THEN NoHeight ELSE 360 * id,
   bandwidth |-> 1000 * id,
   videoCodec |-> IF id = 1 THEN "avc1" ELSE IF id = 2 THEN "hev1" ELSE ""]

\* The lists getVariantTracks() may return: distinct tracks, at most MaxTracks.
TrackLists ==
  UNION {{[i \in 1..n |-> Track(f[i])] :
            f \in {g \in [1..n -> TrackIds] : \A i, j \in 1..n : i # j => g[i] # g[j]}}
         : n \in 0..MaxTracks}

Digit == <<"0", "1", "2", "3", "4", "5", "6", "7", "8", "9">>

\* Number.prototype.toString
RECURSIVE ToString(_)
ToString(n) ==
  IF n < 10 THEN Digit[n + 1] ELSE ToString(n \div 10) \o Digit[(n % 10) + 1]

\* The quality getById leaves when no item has the id: null.
NullQuality ==
  [id |-> Null, width |-> 0, height |-> 0, bitrate |-> 0, codec |-> "", index |-> 0]

\* shaka.ts 136: .filter((item) => item.height !== null)
WithHeightAll(tracks) == tracks
WithHeight(tracks) == SelectSeq(tracks, LAMBDA t : t.height # NoHeight)

\* shaka.ts 138-145: the quality made of a track at position index (from 0) of
\* the filtered list.
QualityOf(item, index) ==
  [id |-> ToString(item.id), width |-> item.width, height |-> item.height,
   bitrate |-> item.bandwidth, codec |-> item.videoCodec, index |-> index]

\* ctx.qualities.getById: the position of the first item with the id, 0 if none.
GetById(items, id) ==
  IF \E i \in 1..Len(items) : items[i].id = id
  THEN CHOOSE i \in 1..Len(items) :
         items[i].id = id /\ \A j \in 1..(i - 1) : items[j].id # id
  ELSE 0

ItemAt(items, i) == IF i = 0 THEN NullQuality ELSE items[i]

-----------------------------------------------------------------------------
(* ShakaController: the handlers (shaka.ts 88-187) *)

Call(w, e) == [w EXCEPT !.calls = @ \o <<e>>]

\* #dispatchShakaEvent (shaka.ts 88-96)
dispatchShakaEvent(w, ev) == Call(w, Entry("dispatch", toDOMEventType(ev.type), ev))

\* #onError (shaka.ts 98-112): logging only.
onError(w, ev) == w

\* #disableAutoQuality (shaka.ts 181-187)
disableAutoQuality(w) ==
  IF w.instance = Null THEN w
  ELSE [Call(w, Entry("configure", "abr", FALSE)) EXCEPT !.abr = FALSE]

\* #enableAutoQuality (shaka.ts 174-180)
enableAutoQuality(w) ==
  IF w.instance = Null THEN w
  ELSE [Call(w, Entry("configure", "abr", TRUE)) EXCEPT !.abr = TRUE]

\* shaka.ts 167-169: the first variant track whose id, as a string, is the
\* selected quality's id; its position, 0 if none.
FindTrack(tracks, id) ==
  IF \E i \in 1..Len(tracks) : ToString(tracks[i].id) = id
  THEN CHOOSE i \in 1..Len(tracks) :
         ToString(tracks[i].id) = id /\ \A j \in 1..(i - 1) : ToString(tracks[j].id) # id
  ELSE 0

\* shaka.ts 163: the guard of #onUserQualityChange.
QualityChangeIgnoredNoAuto(w) == w.instance = Null \/ w.selected = 0
QualityChangeIgnored(w) == w.instance = Null \/ w.auto \/ w.selected = 0

\* #onUserQualityChange (shaka.ts 160-172)
onUserQualityChange(w) ==
  IF QualityChangeIgnored(w) THEN w
  ELSE LET a == disableAutoQuality(w)
           t == FindTrack(a.tracks, a.qualities[a.selected].id)
       IN IF t = 0 THEN a
          ELSE Call(a, Entry("selectVariantTrack", "track", a.tracks[t]))

\* The host list's 'change' event: the listener of shaka.ts 85 runs once it is
\* installed.
FireChange(w) == IF w.hooked THEN onUserQualityChange(w) ELSE w

\* ctx.qualities[QualitySymbol.setAuto](auto, trigger): the host list takes the flag.
SetAuto(w, auto) == [Call(w, Entry("setAuto", "qualities", auto)) EXCEPT !.auto = auto]

\* ctx.qualities[ListSymbol.add](quality, trigger): the host list appends the item.
ListAdd(w, quality) ==
  [Call(w, Entry("add", "qualities", quality)) EXCEPT !.qualities = Append(@, quality)]

\* ctx.qualities[ListSymbol.select](item, true, trigger): the host list reads the
\* item (a TypeError on null), does nothing when it is selected already, else
\* makes it the selection and dispatches 'change'.
ListSelect(w, i) ==
  LET a == Call(w, Entry("select", "qualities", ItemAt(w.qualities, i))) IN
  IF i = 0 THEN [a EXCEPT !.threw = TRUE]
  ELSE IF i = a.selected THEN a
  ELSE FireChange([a EXCEPT !.selected = i])

\* The stream type notified for an isLive flag (shaka.ts 119).
StreamTypeOfInverted(isLive) == IF isLive THEN "on-demand" ELSE "live"
StreamTypeOf(isLive) == IF isLive THEN "live" ELSE "on-demand"

\* #onManifestUpdated (shaka.ts 114-120)
onManifestUpdated(w, ev) ==
  Call(SetAuto(w, TRUE), Entry("notify", "stream-type-change", StreamTypeOf(ev.isLive)))

\* #onLoaded (shaka.ts 122-129)
onLoadedEvent(w, ev) ==
  IF ev.canPlay \/ w.instance = Null THEN w
  ELSE Call(w, Entry("mediaDispatch", "canplay", ev))

RECURSIVE AddQualities(_, _, _)
\* shaka.ts 137-148: forEach over the filtered tracks, index from 0.
AddQualities(w, items, index) ==
  IF items = <<>> THEN w
  ELSE AddQualities(ListAdd(w, QualityOf(Head(items), index)), Tail(items), index + 1)

\* #onTracksChanged (shaka.ts 131-149)
onTracksChanged(w, ev) == AddQualities(w, WithHeight(w.tracks), 0)

\* #onVariantChanged (shaka.ts 151-158)
onVariantChanged(w, ev) ==
  IF ev.newTrack = NoTrack THEN w
  ELSE ListSelect(w, GetById(w.qualities, ToString(ev.newTrack.id)))

\* The listener bound to a handler name.
Handle(w, handler, ev) ==
  CASE handler = "dispatchShakaEvent" -> dispatchShakaEvent(w, ev)
    [] handler = "onError" -> onError(w, ev)
    [] handler = "onManifestUpdated" -> onManifestUpdated(w, ev)
    [] handler = "onLoaded" -> onLoadedEvent(w, ev)
    [] handler = "onTracksChanged" -> onTracksChanged(w, ev)
    [] handler = "onVariantChanged" -> onVariantChanged(w, ev)

RECURSIVE RunListeners(_, _, _)
\* The event target calls the listeners of the event's type in registration
\* order; what one listener throws does not stop the next.
RunListeners(w, ls, ev) ==
  IF ls = <<>> THEN w
  ELSE IF Head(ls).event = ev.type
       THEN RunListeners([Handle(w, Head(ls).handler, ev) EXCEPT !.threw = FALSE],
                         Tail(ls), ev)
       ELSE RunListeners(w, Tail(ls), ev)

-----------------------------------------------------------------------------
(* The library's events on the instance *)

Ev(type, isLive, newTrack, canPlay) ==
  [type |-> type, isLive |-> isLive, newTrack |-> newTrack, canPlay |-> canPlay]

\* The instance dispatches ev: its listeners run.
Dispatch(w, ev) ==
  /\ instance = "player"
  /\ UNCHANGED <<pc, outcome>>
  /\ Commit([w |-> RunListeners(w, listeners, ev), result |-> loadResult],
            Op("event", ev.type, ev.isLive, ev.newTrack))

AbrStatusChanged == Dispatch(Machine, Ev("abrstatuschanged", FALSE, NoTrack, FALSE))

ErrorEvent == Dispatch(Machine, Ev("error", FALSE, NoTrack, FALSE))

\* canPlay is ctx.$state.canPlay() at the time of the event.
Loaded(canPlay) == Dispatch(Machine, Ev("loaded", FALSE, NoTrack, canPlay))

ManifestUpdated(isLive) == Dispatch(Machine, Ev("manifestupdated", isLive, NoTrack, FALSE))

\* The instance's variant tracks become `tracks` and it says so.
TracksChanged(tracks) ==
  /\ Len(qualities) + Len(WithHeight(tracks)) <= MaxQualities
  /\ Dispatch([Machine EXCEPT !.tracks = tracks], Ev("trackschanged", FALSE, NoTrack, FALSE))

\* variantchanged and adaptation carry the track the instance switched to, one
\* of its variant tracks, or null.
VariantChanged(type, newTrack) ==
  /\ newTrack = NoTrack \/ \E i \in 1..Len(variantTracks) : variantTracks[i] = newTrack
  /\ Dispatch(Machine, Ev(type, FALSE, newTrack, FALSE))

-----------------------------------------------------------------------------
(* What the host and the provider's callers do *)

\* A step outside the loader leaves the loader where it stands.
Step(w, op) == UNCHANGED <<pc, outcome>> /\ Commit([w |-> w, result |-> loadResult], op)

\* Set.prototype.add on the callbacks, kept in insertion order.
SetAdd(seq, x) == IF \E i \in 1..Len(seq) : seq[i] = x THEN seq ELSE Append(seq, x)

\* Set.prototype.delete
SetDelete(seq, x) == SelectSeq(seq, LAMBDA y : y # x)

\* ShakaProvider.onInstance (part_001 108-112) and ShakaController.onInstance
\* (shaka.ts 189-192).
OnInstance(cb) ==
  /\ UNCHANGED <<pc, outcome>>
  /\ callbacks' = SetAdd(callbacks, cb)
  /\ everRegistered' = IF instance = Null THEN everRegistered \cup {cb} ELSE everRegistered
  /\ calls' = IF instance # Null THEN <<Entry("callback", instance, cb)>> ELSE <<>>
  /\ lastOp' = Op("onInstance", cb, instance # Null, NoTrack)
  /\ UNCHANGED <<envVars, loadResult, loaderLog, ctor, instVars, hostVars, destroyed>>

\* The Dispose that onInstance returned (shaka.ts 191).
Dispose(cb) ==
  /\ \E i \in 1..Len(callbacks) : callbacks[i] = cb
  /\ UNCHANGED <<pc, outcome>>
  /\ callbacks' = SetDelete(callbacks, cb)
  /\ calls' = <<>>
  /\ lastOp' = Op("dispose", cb, FALSE, NoTrack)
  /\ UNCHANGED <<envVars, loadResult, loaderLog, ctor, instVars, hostVars, everRegistered,
                 destroyed>>

\* The host writes ctx.$state.source, which part_001 87 reads.
SetSource(src) ==
  /\ source # src
  /\ source' = src
  /\ UNCHANGED <<pc, outcome>>
  /\ calls' = <<>>
  /\ lastOp' = Op("setSource", src, FALSE, NoTrack)
  /\ UNCHANGED <<envVars, loadResult, loaderLog, ctor, instVars, callbacks, everRegistered,
                 qualities, selected, qAuto, destroyed>>

\* The host calls ShakaProvider.loadSource with its source (part_001 92-102).
LoadSource ==
  /\ source # Null
  /\ LET w == ProviderLoadSource(Machine, source) IN
     Step([w EXCEPT !.threw = FALSE], Op("loadSource", source, w.threw, NoTrack))

\* The user picks item i of the host list: the list turns auto off, makes the
\* item the selection and dispatches 'change'.
UserSelectQuality(i) ==
  /\ i \in 1..Len(qualities)
  /\ i # selected \/ qAuto
  /\ Step(FireChange([Machine EXCEPT !.selected = i, !.auto = FALSE]),
          Op("change", qualities[i].id, qAuto, NoTrack))

\* The user asks for auto quality: the host list calls its enableAuto hook
\* (shaka.ts 83) and sets its auto flag.
AutoSelect ==
  /\ hooked
  /\ Step([enableAutoQuality(Machine) EXCEPT !.auto = TRUE],
          Op("autoSelect", "qualities", qAuto, NoTrack))

\* ShakaProvider.destroy (part_001 114-116), ShakaController.destroy (shaka.ts
\* 199-205).  destroy() on an object that is no player throws before the
\* instance is dropped.
Destroy ==
  LET w == Machine IN
  CASE instance = "player" ->
         Step([Call(w, Entry("destroy", instance, "void")) EXCEPT !.instance = Null],
              Op("destroy", instance, FALSE, NoTrack))
    [] instance = "bogus" -> Step(w, Op("destroy", instance, TRUE, NoTrack))
    [] OTHER -> Step(w, Op("destroy", instance, FALSE, NoTrack))

-----------------------------------------------------------------------------
(* The specification *)

Init ==
  /\ library \in ShakaLibrary
  /\ shakaGlobal \in BOOLEAN
  /\ browserSupported \in BOOLEAN
  /\ pc = "idle"
  /\ outcome = "none"
  /\ loadResult = "pending"
  /\ loaderLog = <<>>
  /\ ctor = Null
  /\ instance = Null
  /\ listeners = <<>>
  /\ callbacks = <<>>
  /\ hooked = FALSE
  /\ everRegistered = {}
  /\ variantTracks = <<>>
  /\ abrEnabled = TRUE
  /\ instanceSrc = Null
  /\ source = Null
  /\ qualities = <<>>
  /\ selected = 0
  /\ qAuto = FALSE
  /\ lastOp = Op("init", "", FALSE, NoTrack)
  /\ calls = <<>>
  /\ destroyed = FALSE

\* The loader, from setup() to the end of #startLoading.
LoaderNext ==
  \/ ProviderSetup
  \/ \E r \in ScriptResults : ScriptSettles(r)
  \/ ImportShaka
  \/ \E r \in LoaderResults : LoaderSettles(r)

\* The provider's callers: instance callbacks and sources.
CallerNext ==
  \/ \E cb \in CallbackIds : OnInstance(cb)
  \/ \E cb \in CallbackIds : Dispose(cb)
  \/ \E src \in Sources : SetSource(src)
  \/ LoadSource

\* The library's events and the host quality list's requests.
EventNext ==
  \/ AbrStatusChanged
  \/ ErrorEvent
  \/ \E canPlay \in BOOLEAN : Loaded(canPlay)
  \/ \E isLive \in BOOLEAN : ManifestUpdated(isLive)
  \/ \E tracks \in TrackLists : TracksChanged(tracks)
  \/ \E type \in {"variantchanged", "adaptation"} :
       \E id \in TrackIds \cup {0} :
         VariantChanged(type, IF id = 0 THEN NoTrack ELSE Track(id))
  \/ \E i \in 1..MaxQualities : UserSelectQuality(i)
  \/ AutoSelect

Next == LoaderNext \/ CallerNext \/ Destroy \/ EventNext

\* The whole provider.
Spec == Init /\ [][Next]_vars

\* The callers' operations touch the callbacks, the source and the instance's
\* url, which no event handler reads; the events touch the tracks and the
\* quality list, which no caller's operation reads.  The provider is therefore
\* checked as two programs, each with the loader and destroy(): one with the
\* callers' operations, one with the events.
SpecLoader == Init /\ [][LoaderNext \/ CallerNext \/ Destroy]_vars

SpecEvents == Init /\ [][LoaderNext \/ Destroy \/ EventNext]_vars

-----------------------------------------------------------------------------
(* The loader's claims *)

\* How often the loader dispatched an event of the type on the host player.
Dispatched(type) ==
  Cardinality({i \in 1..Len(loaderLog) :
                 loaderLog[i].op = "dispatch" /\ loaderLog[i].type = type})

\* The positions of the log at which the ready callback was invoked.
ReadyCalls == {i \in 1..Len(loaderLog) : loaderLog[i].op = "callback"}

\* A constructor was obtained: the script left window.shaka.Player, the library
\* was a constructor or a namespace and importShaka ran, or the loader function
\* was awaited and gave a module with a constructor or a namespace.
Obtained ==
  CASE library = "url" -> outcome = "ok"
    [] library \in {"Player", "namespace"} -> pc = "done"
    [] library \in {"arrowLoader", "functionLoader"} ->
         outcome \in {"ctorModule", "namespaceModule"}
    [] OTHER -> FALSE

\* C1: for every kind of library value the ready callback is invoked at most
\* once, with the obtained constructor, and exactly when one was obtained: a
\* url uses only the remote script (one load start at most), a constructor or
\* namespace is used directly, a loader function is awaited (no callback before
\* it settled), undefined or a failed load never invokes the callback.
C1_ReadyCallback ==
  /\ Cardinality(ReadyCalls) <= 1
  /\ \A i \in ReadyCalls : loaderLog[i].arg = "Player"
  /\ ReadyCalls # {} => Obtained
  /\ (pc = "done" /\ Obtained) => ReadyCalls # {}
  /\ library = "url" => Dispatched("shaka-lib-load-start") <= 1

\* The outcomes of the awaited script or loader function that are load failures.
Failures == {"scriptError", "noShaka", "noPlayer", "reject", "undefined", "emptyModule"}

\* The error a failure is reported with.
ErrorOf(o) == IF o \in {"undefined", "emptyModule"} THEN "invalidImport" ELSE o

\* C8: when loading fails (the script fails to load, no Player constructor is
\* on window after it loaded, the loader function rejects or resolves to an
\* invalid object) the loader dispatches 'shaka-lib-load-error' with the error
\* as detail and notifies 'error' with code 4; it dispatches no
\* 'shaka-lib-loaded' and never invokes the ready callback.
C8_LoadFailure ==
  outcome \in Failures =>
    /\ loaderLog = <<LogEntry("dispatch", "shaka-lib-load-start", "void", 0),
                     LogEntry("dispatch", "shaka-lib-load-error", ErrorOf(outcome), 0),
                     LogEntry("notify", "error", ErrorOf(outcome), 4)>>
    /\ ctor = Null
    /\ instance = Null

C8_Witness == outcome = "emptyModule" /\ pc = "done" /\ Len(loaderLog) = 3

\* C10: 'shaka-lib-load-start' is dispatched at most once, and once the load
\* attempt is over it was followed by exactly one of 'shaka-lib-loaded' and
\* 'shaka-lib-load-error', never both, also when the ready callback throws.
C10_OneLoadResult ==
  /\ Dispatched("shaka-lib-load-start") <= 1
  /\ (pc = "done" /\ Dispatched("shaka-lib-load-start") = 1) =>
       Dispatched("shaka-lib-loaded") + Dispatched("shaka-lib-load-error") = 1

-----------------------------------------------------------------------------
(* The provider's claims *)

\* The last step ran the ready callback and ShakaController.setup came to its end.
SetupRan == lastOp.name \in {"scriptSettles", "importShaka", "loaderSettles"} /\ hooked

\* The positions of `calls` holding a call of the operation.
CallsOf(op) == {i \in 1..Len(calls) : calls[i].op = op}

\* C2 as stated: every callback passed to onInstance before setup ran is
\* invoked with the new instance during setup, before the instance is attached.
C2_EveryRegisteredCallback ==
  SetupRan =>
    \A cb \in everRegistered :
      \E i \in CallsOf("callback") :
        /\ calls[i] = Entry("callback", "player", cb)
        /\ \A j \in CallsOf("attach") : i < j

\* C2, amended: every callback passed to onInstance and not disposed before
\* setup runs is invoked once with the new instance during setup, before the
\* instance is attached; a callback passed to onInstance while an instance
\* exists is invoked at once with that instance (and not invoked when none
\* exists).
C2_InstanceCallbacks ==
  /\ SetupRan =>
       /\ Cardinality(CallsOf("attach")) = 1
       /\ Cardinality(CallsOf("callback")) = Len(callbacks)
       /\ \A k \in 1..Len(callbacks) :
            \E i \in CallsOf("callback") :
              /\ calls[i] = Entry("callback", "player", callbacks[k])
              /\ \A j \in CallsOf("attach") : i < j
  /\ lastOp.name = "onInstance" =>
       calls = IF instance = Null THEN <<>>
               ELSE <<Entry("callback", instance, lastOp.type)>>

C2_Witness == SetupRan /\ Len(callbacks) = 1 /\ Cardinality(everRegistered) = 2

\* C9: when the library finished loading, the ready callback stores the
\* constructor, sets up the controller (instance created, attached, configured),
\* notifies 'provider-setup' and only then loads the source the host holds: a
\* url source set while the library was loading is loaded into the instance, and
\* no load reaches an instance before 'provider-setup'.
C9_SetupThenLoad ==
  /\ SetupRan =>
       /\ ctor = "Player"
       /\ instance = "player"
       /\ \E a \in CallsOf("attach"), c \in CallsOf("configure"), n \in CallsOf("notify") :
            /\ a < c /\ c < n
            /\ calls[n] = Entry("notify", "provider-setup", "provider")
            /\ \A l \in CallsOf("load") : n < l
       /\ source = "a.mpd" =>
            /\ \E l \in CallsOf("load") : calls[l] = Entry("load", "player", "a.mpd")
            /\ instanceSrc = "a.mpd"
       /\ source # "a.mpd" => CallsOf("load") = {}
  /\ (CallsOf("load") # {} \/ instanceSrc # Null) => hooked

C9_Witness ==
  SetupRan /\ lastOp.name = "loaderSettles" /\ source = "a.mpd" /\ instanceSrc = "a.mpd"

-----------------------------------------------------------------------------
(* The controller's claims *)

\* The last step was an event of the type on the instance.
EventStep(type) == lastOp.name = "event" /\ lastOp.type = type

VariantStep == EventStep("variantchanged") \/ EventStep("adaptation")

\* The decimal strings of the track ids.
IdString(id) == CASE id = 1 -> "1" [] id = 2 -> "2" [] id = 10 -> "10"

\* C3: each occurrence of one of the seven library events on the instance gives
\* exactly one event on the host player, named 'shaka-' followed by the
\* library event's type and carrying the library event as detail, dispatched
\* before the controller's state handler for that event makes any call.
C3_EventRemap ==
  lastOp.name = "event" =>
    /\ \E i \in 1..Len(ShakaLibEventName) : ShakaLibEventName[i] = lastOp.type
    /\ Cardinality(CallsOf("dispatch")) = 1
    /\ calls[1].op = "dispatch"
    /\ calls[1].type = "shaka-" \o lastOp.type
    /\ calls[1].arg.type = lastOp.type
    /\ calls[1].arg.isLive = lastOp.flag
    /\ calls[1].arg.newTrack = lastOp.track

C3_Witness == EventStep("manifestupdated") /\ Len(calls) = 3

\* The stream types the host was notified of in the last step, in order.
StreamTypeNotified ==
  LET at == {i \in CallsOf("notify") : calls[i].type = "stream-type-change"}
      nth[k \in 1..Cardinality(at)] ==
        CHOOSE i \in at : Cardinality({j \in at : j < i}) = k - 1
  IN [k \in 1..Cardinality(at) |-> calls[nth[k]].arg]

\* C4: every manifestupdated event notifies the host of 'stream-type-change'
\* once, with 'live' when its isLive is true and 'on-demand' when it is false;
\* no other step notifies a stream type, so the stream type last notified is
\* that of the last manifest update.
C4_StreamType ==
  IF EventStep("manifestupdated")
  THEN StreamTypeNotified = <<IF lastOp.flag THEN "live" ELSE "on-demand">>
  ELSE StreamTypeNotified = <<>>

C4_Witness ==
  EventStep("manifestupdated") /\ ~lastOp.flag /\ StreamTypeNotified = <<"on-demand">>

\* C5: on trackschanged the controller adds to the host list one quality for
\* each variant track whose height is not null and none for the others; each
\* has the track's id as a string, its width, height, bandwidth as bitrate and
\* video codec, and as index its position among the tracks with a height.
C5_TracksToQualities ==
  EventStep("trackschanged") =>
    LET keep == {i \in 1..Len(variantTracks) : variantTracks[i].height # NoHeight}
        rank(i) == Cardinality({j \in keep : j < i})
        want(i) == [id |-> IdString(variantTracks[i].id),
                    width |-> variantTracks[i].width,
                    height |-> variantTracks[i].height,
                    bitrate |-> variantTracks[i].bandwidth,
                    codec |-> variantTracks[i].videoCodec,
                    index |-> rank(i)]
        base == Len(qualities) - Cardinality(keep)
    IN /\ Cardinality(CallsOf("add")) = Cardinality(keep)
       /\ base >= 0
       /\ \A i \in keep :
            /\ \E a \in CallsOf("add") : calls[a].arg = want(i)
            /\ qualities[base + rank(i) + 1] = want(i)

C5_Witness ==
  /\ EventStep("trackschanged")
  /\ variantTracks = <<Track(10), Track(2)>>
  /\ Cardinality(CallsOf("add")) = 1

\* The variant tracks whose id, as a string, is the selected quality's id.
Matching ==
  {t \in 1..Len(variantTracks) : IdString(variantTracks[t].id) = qualities[selected].id}

\* What C6 says of the other cases: with no instance, auto quality on or
\* nothing selected the 'change' handler makes no configure and no
\* selectVariantTrack call; what it says of the enableAuto hook: it sets the
\* instance's ABR to enabled.
C6_OtherCases ==
  /\ (lastOp.name = "change" /\ instance = Null) => calls = <<>>
  /\ (VariantStep /\ (qAuto \/ selected = 0)) =>
       CallsOf("configure") = {} /\ CallsOf("selectVariantTrack") = {}
  /\ VariantStep =>
       /\ \A c \in CallsOf("configure") : calls[c].arg = FALSE
       /\ \A t \in CallsOf("selectVariantTrack") :
            /\ IdString(calls[t].arg.id) = qualities[selected].id
            /\ \E c \in CallsOf("configure") : c < t
  /\ lastOp.name = "autoSelect" =>
       IF instance = Null THEN calls = <<>>
       ELSE calls = <<Entry("configure", "abr", TRUE)>> /\ abrEnabled

\* C6 as stated: on 'change' with an instance, auto off and a quality selected
\* the controller disables ABR and then selects the variant track whose id is
\* the selected quality's.
C6_AlwaysSelectsTrack ==
  /\ (lastOp.name = "change" /\ instance # Null) =>
       /\ ~abrEnabled
       /\ \E t \in Matching :
            calls = <<Entry("configure", "abr", FALSE),
                      Entry("selectVariantTrack", "track", variantTracks[t])>>
  /\ C6_OtherCases

\* C6, amended: on 'change' with an instance, auto off and a quality selected
\* the controller disables ABR and then, when the instance has a variant track
\* whose id is the selected quality's, selects that track; when it has none it
\* makes no selectVariantTrack call.  The other cases are as stated.
C6_QualityChange ==
  /\ (lastOp.name = "change" /\ instance # Null) =>
       /\ ~abrEnabled
       /\ IF Matching = {}
          THEN calls = <<Entry("configure", "abr", FALSE)>>
          ELSE \E t \in Matching :
                 calls = <<Entry("configure", "abr", FALSE),
                           Entry("selectVariantTrack", "track", variantTracks[t])>>
  /\ C6_OtherCases

C6_Witness == lastOp.name = "change" /\ instance = "player" /\ Len(calls) = 2

\* C7: a variantchanged or adaptation event with a non-null newTrack selects in
\* the host list the existing quality whose id is newTrack.id as a string (what
\* is passed to select is never null); with a null newTrack nothing is selected.
C7_SelectsExistingQuality ==
  VariantStep =>
    IF lastOp.track = NoTrack THEN CallsOf("select") = {}
    ELSE \E s \in CallsOf("select") :
           /\ calls[s].arg # NullQuality
           /\ calls[s].arg.id = IdString(lastOp.track.id)
           /\ \E i \in 1..Len(qualities) : qualities[i] = calls[s].arg

-----------------------------------------------------------------------------
(* The loader's support check *)

\* The positions of the log at which 'shaka-unsupported' was dispatched.
UnsupportedAt ==
  {i \in 1..Len(loaderLog) :
     loaderLog[i].op = "dispatch" /\ loaderLog[i].type = "shaka-unsupported"}

\* C11: when isBrowserSupported() answered false the host gets
\* 'shaka-unsupported' followed by an 'error' notification with code 4 and no
\* player instance is created: the ready callback was not invoked, no
\* constructor was stored and ShakaController.setup did not run.
C11_Unsupported ==
  UnsupportedAt # {} =>
    /\ \A i \in UnsupportedAt :
         /\ i < Len(loaderLog)
         /\ loaderLog[i + 1] = LogEntry("notify", "error", "unsupported", 4)
    /\ loadResult = "null"
    /\ ReadyCalls = {}
    /\ ctor = Null
    /\ ~hooked

-----------------------------------------------------------------------------
(* destroy() *)

\* The calls of the last step that reached a player instance.
InstanceCalls == CallsOf("load") \cup CallsOf("configure") \cup CallsOf("selectVariantTrack")

\* C12: once destroy() has been called on a provider that was set up, the
\* instance is null in every later state and no load, configure or
\* selectVariantTrack call is made any more, whatever runs after it, the end
\* of the library load started by setup() included.
C12_DestroyIsFinal == destroyed => (instance = Null /\ InstanceCalls = {})

-----------------------------------------------------------------------------
(* Auto quality *)

\* C13: after any sequence of manifest updates, user quality changes and
\* auto-quality requests, while the host quality list's auto flag is true the
\* ABR configuration last applied to the instance is enabled.
C13_AutoAgreesWithAbr == (instance = "player" /\ qAuto) => abrEnabled

====
